---- MODULE Spec2Model ----
(***************************************************************************)
(* A model of the simplified `wc` of src/src/main.rs: the two counting     *)
(* functions (count_file, count_in_str) as operators, and run/main as a    *)
(* state machine over the list of source tokens.                           *)
(*                                                                         *)
(* A text is a sequence of units.  A unit is either a Unicode scalar value *)
(* (with the length of its UTF-8 encoding) or BADBYTE, a byte that is not  *)
(* part of any valid UTF-8 sequence.                                       *)
(***************************************************************************)
EXTENDS Integers, Sequences, FiniteSets, TLC

VARIABLES
    \* ---- the counting functions applied to one input (SpecCount) ----
    text,       \* the input handed to the counting functions
    fileRes,    \* result of count_file on text, or NotRun
    strRes,     \* result of from_utf8 + count_in_str on text, or NotRun
    prevFile,   \* result of count_file on the text before it was extended
    prevStr,    \* result of count_in_str on the text before it was extended
    \* ---- one process execution (Spec) ----
    files,      \* args.files as given on the command line (after the default)
    sel,        \* the count flags given on the command line
    totalArg,   \* the value of --total
    stdinSrc,   \* what the process' standard input holds
    stdinLeft,  \* the part of standard input not yet consumed
    pc,         \* "parse", "run", "done"
    pos,        \* index in files of the next token of the for loop
    total,      \* the running total of run
    stdout,     \* lines printed by display, in order
    stderr,     \* lines printed by eprintln!, in order
    exitCode,   \* process exit code, NoExit while running
    runNo,      \* 1 for the first execution, 2 for the re-execution
    prevTotal,  \* Total line of the first execution, or NoLine
    reordered   \* the re-execution got the tokens in another order

countVars == <<text, fileRes, strRes, prevFile, prevStr>>
runVars == <<files, sel, totalArg, stdinSrc, stdinLeft, pc, pos, total,
             stdout, stderr, exitCode, runNo, prevTotal, reordered>>
vars == <<text, fileRes, strRes, prevFile, prevStr,
          files, sel, totalArg, stdinSrc, stdinLeft, pc, pos, total,
          stdout, stderr, exitCode, runNo, prevTotal, reordered>>

----------------------------------------------------------------------------
(* Bounds *)

\* longest input handed to the counting functions
MaxLen == 4
\* most source tokens on a command line
MaxFiles == 3

----------------------------------------------------------------------------
(* Units of text *)

SP == " "
LF == "\n"
TAB == "\t"
\* U+00E9, a scalar value whose UTF-8 encoding takes two bytes
EACUTE == "U+00E9"
\* a byte that makes the input invalid UTF-8
BADBYTE == "0xFF"

Alphabet == {"a", SP, LF, TAB, EACUTE, BADBYTE}

\* number of bytes of the encoding of unit u
ByteLen(u) == IF u = EACUTE THEN 2 ELSE 1

\* char::is_whitespace, on the units used here
IsWhitespace(c) == c \in {SP, LF, TAB, "\r"}

RECURSIVE NumBytes(_)
NumBytes(s) == IF s = <<>> THEN 0 ELSE ByteLen(Head(s)) + NumBytes(Tail(s))

\* std::str::from_utf8 succeeds
ValidUtf8(s) == \A i \in 1..Len(s) : s[i] # BADBYTE

\* str::chars().count()
CharsCount(s) == Len(s)

RECURSIVE SplitFrom(_, _, _, _)
SplitFrom(s, sep, i, cur) ==
    IF i > Len(s) THEN <<cur>>
    ELSE IF s[i] = sep THEN <<cur>> \o SplitFrom(s, sep, i + 1, <<>>)
    ELSE SplitFrom(s, sep, i + 1, Append(cur, s[i]))

\* str::split(sep) for a one-character pattern
Split(s, sep) == SplitFrom(s, sep, 1, <<>>)

RECURSIVE TrimStart(_)
TrimStart(s) ==
    IF s # <<>> /\ IsWhitespace(Head(s)) THEN TrimStart(Tail(s)) ELSE s

RECURSIVE TrimEnd(_)
TrimEnd(s) ==
    IF s # <<>> /\ IsWhitespace(s[Len(s)])
    THEN TrimEnd(SubSeq(s, 1, Len(s) - 1)) ELSE s

\* str::trim
Trim(s) == TrimEnd(TrimStart(s))

----------------------------------------------------------------------------
(* Results *)

FileInfo(l, w, b, c) ==
    [num_lines |-> l, num_words |-> w, num_bytes |-> b, num_chars |-> c]

ZeroInfo == FileInfo(0, 0, 0, 0)

Ok(v) == [ok |-> TRUE, val |-> v, err |-> "none"]
Err(e) == [ok |-> FALSE, val |-> ZeroInfo, err |-> e]

NotRun == [ok |-> FALSE, val |-> ZeroInfo, err |-> "not run"]

\* the process has not exited
NoExit == "none"
\* no line was printed
NoLine == [lhs |-> "none", res |-> <<>>]

----------------------------------------------------------------------------
(* The word rule shared by both modes: for l in line.split(" ")            *)

WordsInAnyPiece(line) ==
    Cardinality({i \in 1..Len(Split(line, SP)) : Split(line, SP)[i] # <<>>})

WordsIn(line) ==
    Cardinality({i \in 1..Len(Split(line, SP)) :
                    Trim(Split(line, SP)[i]) # <<>>})

----------------------------------------------------------------------------
(* count_file *)

\* position of the first LF of buf, 0 when there is none
FirstLF(buf) ==
    IF \E i \in 1..Len(buf) : buf[i] = LF
    THEN CHOOSE i \in 1..Len(buf) :
            buf[i] = LF /\ \A j \in 1..(i - 1) : buf[j] # LF
    ELSE 0

\* BufRead::read_line on a reader holding buf: the bytes up to and including
\* the first LF (or all of them), the count of bytes read, the rest.
\* A reader whose underlying read fails holds ReadFails.
ReadFails == <<"read fails">>

ReadLineNoTerminator(buf) ==
    IF buf = ReadFails THEN [ok |-> FALSE, err |-> "io", line_bytes |-> 0,
                             line |-> <<>>, rest |-> buf]
    ELSE LET n == IF FirstLF(buf) = 0 THEN Len(buf) ELSE FirstLF(buf)
             got == SubSeq(buf, 1, n)
             rest == SubSeq(buf, n + 1, Len(buf))
             body == IF FirstLF(buf) = 0 THEN got ELSE SubSeq(buf, 1, n - 1)
         IN  IF ValidUtf8(got)
             THEN [ok |-> TRUE, err |-> "none", line_bytes |-> NumBytes(body),
                   line |-> body, rest |-> rest]
             ELSE [ok |-> FALSE, err |-> "utf8", line_bytes |-> 0,
                   line |-> <<>>, rest |-> rest]

ReadLine(buf) ==
    IF buf = ReadFails THEN [ok |-> FALSE, err |-> "io", line_bytes |-> 0,
                             line |-> <<>>, rest |-> buf]
    ELSE LET n == IF FirstLF(buf) = 0 THEN Len(buf) ELSE FirstLF(buf)
             got == SubSeq(buf, 1, n)
             rest == SubSeq(buf, n + 1, Len(buf))
         IN  IF ValidUtf8(got)
             THEN [ok |-> TRUE, err |-> "none", line_bytes |-> NumBytes(got),
                   line |-> got, rest |-> rest]
             ELSE [ok |-> FALSE, err |-> "utf8", line_bytes |-> 0,
                   line |-> <<>>, rest |-> rest]

LoopBodyAssign(acc, line_bytes, line) ==
    FileInfo(1, WordsIn(line), line_bytes, CharsCount(line))

\* the body of the loop of count_file for one line that was read
LoopBody(acc, line_bytes, line) ==
    FileInfo(acc.num_lines + 1,
             acc.num_words + WordsIn(line),
             acc.num_bytes + line_bytes,
             acc.num_chars + CharsCount(line))

RECURSIVE CountLoop(_, _)
CountLoop(buf, acc) ==
    LET r == ReadLine(buf)
    IN  IF ~r.ok THEN Err(r.err)
        ELSE IF r.line_bytes = 0 THEN Ok(acc)
        ELSE CountLoop(r.rest, LoopBody(acc, r.line_bytes, r.line))

count_file(file) == CountLoop(file, ZeroInfo)

----------------------------------------------------------------------------
(* count_in_str *)

SegmentBodyNoNewline(acc, line) ==
    FileInfo(acc.num_lines + 1,
             acc.num_words + WordsIn(line),
             acc.num_bytes + NumBytes(line),
             acc.num_chars + CharsCount(line))

\* the body of the loop of count_in_str for one segment
SegmentBody(acc, line) ==
    FileInfo(acc.num_lines + 1,
             acc.num_words + WordsIn(line),
             acc.num_bytes + NumBytes(line) + 1,
             acc.num_chars + CharsCount(line) + 1)

RECURSIVE SegmentLoop(_, _, _)
SegmentLoop(segs, i, acc) ==
    IF i > Len(segs) THEN acc
    ELSE SegmentLoop(segs, i + 1, SegmentBody(acc, segs[i]))

count_in_str(txt) == SegmentLoop(Split(txt, LF), 1, ZeroInfo)

\* String::from_utf8(content)? followed by count_in_str(&content)
CountBlob(content) ==
    IF ValidUtf8(content) THEN Ok(count_in_str(content)) ELSE Err("utf8")

----------------------------------------------------------------------------
(* SpecCount: the counting functions on bounded inputs *)

Texts(n) == UNION {[1..k -> Alphabet] : k \in 0..n}

RunIdle ==
    /\ files = <<>> /\ sel = {} /\ totalArg = "always"
    /\ stdinSrc = <<>> /\ stdinLeft = <<>> /\ pc = "idle" /\ pos = 0
    /\ total = ZeroInfo /\ stdout = <<>> /\ stderr = <<>>
    /\ exitCode = NoExit /\ runNo = 0 /\ prevTotal = NoLine
    /\ reordered = FALSE

InitCount ==
    /\ text \in Texts(MaxLen)
    /\ fileRes = NotRun /\ strRes = NotRun
    /\ prevFile = NotRun /\ prevStr = NotRun
    /\ RunIdle

\* count_file is called on a reader over text
CallCountFile ==
    /\ fileRes = NotRun
    /\ fileRes' = count_file(text)
    /\ UNCHANGED <<text, strRes, prevFile, prevStr>>
    /\ UNCHANGED runVars

\* text is decoded and count_in_str is called on it
CallCountInStr ==
    /\ strRes = NotRun
    /\ strRes' = CountBlob(text)
    /\ UNCHANGED <<text, fileRes, prevFile, prevStr>>
    /\ UNCHANGED runVars

\* the input grows by u: the records of the shorter input are kept for
\* comparison and the functions are to be called again
Extend(u) ==
    /\ fileRes # NotRun /\ strRes # NotRun
    /\ prevFile = NotRun
    /\ u # <<>>
    /\ text' = text \o u
    /\ prevFile' = fileRes /\ prevStr' = strRes
    /\ fileRes' = NotRun /\ strRes' = NotRun
    /\ UNCHANGED runVars

NextCount ==
    \/ CallCountFile
    \/ CallCountInStr
    \/ \E u \in Texts(MaxLen - Len(text)) : Extend(u)

SpecCount == InitCount /\ [][NextCount]_vars

----------------------------------------------------------------------------
(* The environment of one process execution *)

STDIN == "-"
Tokens == {STDIN, "a.txt", "nofile", "dir", "bad.bin"}

\* the files of the file system; "nofile" does not exist
FileExists(name) == name \in {"a.txt", "dir", "bad.bin"}

\* what a reader over an existing file holds; a directory can be opened
\* but every read of it fails; bad.bin is not valid UTF-8 on its second line
FileContent(name) ==
    CASE name = "a.txt" -> <<EACUTE, SP, "b", LF, "c", TAB, SP, "d">>
      [] name = "bad.bin" -> <<"a", LF, BADBYTE, LF>>
      [] OTHER -> ReadFails

\* what standard input may hold: nothing, text, bytes that are not valid
\* UTF-8, or a descriptor whose read fails
StdinChoices == {<<>>, <<"x", SP, "y", LF, "z">>, <<"x", LF, BADBYTE>>, ReadFails}

SelChoices == {{}, {"words"}, {"bytes", "chars"}}
TotalChoices == {"always", "never", "auto"}

\* Args::parse accepts the command line: --chars conflicts with --bytes and
\* --total takes always or never
ParseOk == ~({"chars", "bytes"} \subseteq sel) /\ totalArg \in {"always", "never"}

\* the flags after the defaulting at the start of run
Selected == IF sel = {} THEN {"lines", "words", "chars", "bytes"} ELSE sel

\* the branch of run: the sole token is `-`
LoneStdin == Len(files) = 1 /\ files[1] = STDIN

add_assign_forgets_words(lhs, rhs) ==
    FileInfo(lhs.num_lines + rhs.num_lines,
             lhs.num_words,
             lhs.num_bytes + rhs.num_bytes,
             lhs.num_chars + rhs.num_chars)

\* FileInfo::add_assign
add_assign(lhs, rhs) ==
    FileInfo(lhs.num_lines + rhs.num_lines,
             lhs.num_words + rhs.num_words,
             lhs.num_bytes + rhs.num_bytes,
             lhs.num_chars + rhs.num_chars)

\* the line display prints: the label and the selected counts, in the order
\* lines, words, chars, bytes
display(lhs, info) ==
    [lhs |-> lhs,
     res |-> (IF "lines" \in Selected THEN <<<<info.num_lines, "lines">>>> ELSE <<>>)
          \o (IF "words" \in Selected THEN <<<<info.num_words, "words">>>> ELSE <<>>)
          \o (IF "chars" \in Selected THEN <<<<info.num_chars, "chars">>>> ELSE <<>>)
          \o (IF "bytes" \in Selected THEN <<<<info.num_bytes, "bytes">>>> ELSE <<>>)]

\* open: `-` gives a reader over standard input, a name gives a reader over
\* the file or the error of File::open
open(filename) ==
    IF filename = STDIN THEN [ok |-> TRUE, file |-> stdinLeft, err |-> "none"]
    ELSE IF FileExists(filename)
         THEN [ok |-> TRUE, file |-> FileContent(filename), err |-> "none"]
         ELSE [ok |-> FALSE, file |-> <<>>,
               err |-> "No such file or directory (os error 2)"]

\* standard input after a reader over it was used up and dropped: count_file
\* reads to the end of the input, and the bytes a failed read_line left in
\* the dropped BufReader are lost (inputs here are shorter than its buffer)
Drained(src) == IF src = ReadFails THEN ReadFails ELSE <<>>

----------------------------------------------------------------------------
(* Spec: main and run *)

CountIdle ==
    /\ text = <<>> /\ fileRes = NotRun /\ strRes = NotRun
    /\ prevFile = NotRun /\ prevStr = NotRun

TokenLists(n) == UNION {[1..k -> Tokens] : k \in 1..n}

Init ==
    /\ files \in TokenLists(MaxFiles)
    /\ sel \in SelChoices
    /\ totalArg \in TotalChoices
    /\ stdinSrc \in StdinChoices
    /\ stdinLeft = stdinSrc
    /\ pc = "parse" /\ pos = 1
    /\ total = ZeroInfo /\ stdout = <<>> /\ stderr = <<>>
    /\ exitCode = NoExit /\ runNo = 1 /\ prevTotal = NoLine
    /\ reordered = FALSE
    /\ CountIdle

\* main: Args::parse(); clap reports a bad command line and exits with 2
Parse ==
    /\ pc = "parse"
    /\ IF ParseOk
       THEN /\ pc' = "run"
            /\ UNCHANGED <<stderr, exitCode>>
       ELSE /\ pc' = "done"
            /\ stderr' = Append(stderr, <<"error: invalid arguments">>)
            /\ exitCode' = 2
    /\ UNCHANGED <<files, sel, totalArg, stdinSrc, stdinLeft, pos, total,
                   stdout, runNo, prevTotal, reordered>>
    /\ UNCHANGED countVars

\* run when the sole token is `-`: read all of standard input, decode it,
\* count it, display it and the total; main prints an error of run and exits
\* with 1
RunBlob ==
    /\ pc = "run" /\ LoneStdin
    /\ pc' = "done"
    /\ stdinLeft' = Drained(stdinLeft)
    /\ IF stdinLeft = ReadFails
       THEN /\ stderr' = Append(stderr, <<"Is a directory (os error 21)">>)
            /\ exitCode' = 1
            /\ UNCHANGED <<total, stdout>>
       ELSE IF ~CountBlob(stdinLeft).ok
       THEN /\ stderr' = Append(stderr, <<"invalid utf-8 sequence">>)
            /\ exitCode' = 1
            /\ UNCHANGED <<total, stdout>>
       ELSE LET info == CountBlob(stdinLeft).val
            IN  /\ total' = add_assign(total, info)
                /\ stdout' =
                      <<display("stdin (keyboard input)", info)>>
                      \o (IF totalArg = "always"
                          THEN <<display("Total", add_assign(total, info))>>
                          ELSE <<>>)
                /\ exitCode' = 0
                /\ UNCHANGED stderr
    /\ UNCHANGED <<files, sel, totalArg, stdinSrc, pos, runNo, prevTotal,
                   reordered>>
    /\ UNCHANGED countVars

RunFileAbortOnOpenError ==
    /\ pc = "run" /\ ~LoneStdin /\ pos <= Len(files)
    /\ LET filename == files[pos]
           o == open(filename)
       IN  IF ~o.ok
           THEN /\ stderr' = Append(stderr, <<o.err>>)
                /\ exitCode' = 1
                /\ pc' = "done"
                /\ UNCHANGED <<stdout, total, stdinLeft, pos>>
           ELSE LET r == count_file(o.file)
                IN  /\ IF r.ok
                       THEN /\ stdout' = Append(stdout,
                                   display(IF filename = STDIN THEN "stdin"
                                           ELSE filename, r.val))
                            /\ total' = add_assign(total, r.val)
                       ELSE UNCHANGED <<stdout, total>>
                    /\ stdinLeft' = IF filename = STDIN
                                    THEN Drained(stdinLeft) ELSE stdinLeft
                    /\ pos' = pos + 1
                    /\ UNCHANGED <<stderr, pc, exitCode>>
    /\ UNCHANGED <<files, sel, totalArg, stdinSrc, runNo, prevTotal,
                   reordered>>
    /\ UNCHANGED countVars

RunFileAbortOnCountError ==
    /\ pc = "run" /\ ~LoneStdin /\ pos <= Len(files)
    /\ LET filename == files[pos]
           o == open(filename)
       IN  IF ~o.ok
           THEN /\ stderr' = Append(stderr, <<filename, ": ", o.err>>)
                /\ pos' = pos + 1
                /\ UNCHANGED <<stdout, total, stdinLeft, pc, exitCode>>
           ELSE LET r == count_file(o.file)
                IN  /\ IF r.ok
                       THEN /\ stdout' = Append(stdout,
                                   display(IF filename = STDIN THEN "stdin"
                                           ELSE filename, r.val))
                            /\ total' = add_assign(total, r.val)
                            /\ pos' = pos + 1
                            /\ UNCHANGED <<stderr, pc, exitCode>>
                       ELSE /\ stderr' = Append(stderr, <<r.err>>)
                            /\ exitCode' = 1
                            /\ pc' = "done"
                            /\ UNCHANGED <<stdout, total, pos>>
                    /\ stdinLeft' = IF filename = STDIN
                                    THEN Drained(stdinLeft) ELSE stdinLeft
    /\ UNCHANGED <<files, sel, totalArg, stdinSrc, runNo, prevTotal,
                   reordered>>
    /\ UNCHANGED countVars

\* run, one iteration of `for filename in &args.files`
RunFile ==
    /\ pc = "run" /\ ~LoneStdin /\ pos <= Len(files)
    /\ LET filename == files[pos]
           o == open(filename)
       IN  IF ~o.ok
           THEN /\ stderr' = Append(stderr, <<filename, ": ", o.err>>)
                /\ UNCHANGED <<stdout, total, stdinLeft>>
           ELSE LET r == count_file(o.file)
                IN  /\ IF r.ok
                       THEN /\ stdout' = Append(stdout,
                                   display(IF filename = STDIN THEN "stdin"
                                           ELSE filename, r.val))
                            /\ total' = add_assign(total, r.val)
                       ELSE UNCHANGED <<stdout, total>>
                    /\ stdinLeft' = IF filename = STDIN
                                    THEN Drained(stdinLeft) ELSE stdinLeft
                    /\ UNCHANGED stderr
    /\ pos' = pos + 1
    /\ UNCHANGED <<files, sel, totalArg, stdinSrc, pc, exitCode, runNo,
                   prevTotal, reordered>>
    /\ UNCHANGED countVars

RunFinishAuto ==
    /\ pc = "run" /\ ~LoneStdin /\ pos > Len(files)
    /\ stdout' = IF totalArg = "always" /\ Len(files) > 1
                 THEN Append(stdout, display("Total", total))
                 ELSE stdout
    /\ exitCode' = 0
    /\ pc' = "done"
    /\ UNCHANGED <<files, sel, totalArg, stdinSrc, stdinLeft, pos, total,
                   stderr, runNo, prevTotal, reordered>>
    /\ UNCHANGED countVars

\* run after the for loop: the total line, Ok(()); main returns
RunFinish ==
    /\ pc = "run" /\ ~LoneStdin /\ pos > Len(files)
    /\ stdout' = IF totalArg = "always"
                 THEN Append(stdout, display("Total", total))
                 ELSE stdout
    /\ exitCode' = 0
    /\ pc' = "done"
    /\ UNCHANGED <<files, sel, totalArg, stdinSrc, stdinLeft, pos, total,
                   stderr, runNo, prevTotal, reordered>>
    /\ UNCHANGED countVars

\* the Total line of an output, NoLine when it has none
TotalLine(out) ==
    IF out # <<>> /\ out[Len(out)].lhs = "Total" THEN out[Len(out)] ELSE NoLine

Permuted(fs, p) == [i \in 1..Len(fs) |-> fs[p[i]]]

IsPermutation(p, n) == \A j \in 1..n : \E i \in 1..n : p[i] = j

\* the orders in which a finished first execution can be repeated
Reorderings ==
    IF pc = "done" /\ runNo = 1
    THEN {p \in [1..Len(files) -> 1..Len(files)] : IsPermutation(p, Len(files))}
    ELSE {}

\* the process is executed again in the same environment, with the same
\* options and the tokens reordered by p
Rerun(p) ==
    /\ pc = "done" /\ runNo = 1
    /\ p \in Reorderings
    /\ files' = Permuted(files, p)
    /\ prevTotal' = TotalLine(stdout)
    /\ runNo' = 2
    /\ reordered' = (Permuted(files, p) # files)
    /\ stdinLeft' = stdinSrc
    /\ pc' = "parse" /\ pos' = 1
    /\ total' = ZeroInfo /\ stdout' = <<>> /\ stderr' = <<>>
    /\ exitCode' = NoExit
    /\ UNCHANGED <<sel, totalArg, stdinSrc>>
    /\ UNCHANGED countVars

Next ==
    \/ Parse
    \/ RunBlob
    \/ RunFile
    \/ RunFinish
    \/ \E p \in Reorderings : Rerun(p)

Spec == Init /\ [][Next]_vars

----------------------------------------------------------------------------
(* Properties of the counting functions, stated from the input alone *)

RECURSIVE SumOver(_, _)
\* sum of f[x] over the finite set S
SumOver(S, f) ==
    IF S = {} THEN 0
    ELSE LET x == CHOOSE y \in S : TRUE IN f[x] + SumOver(S \ {x}, f)

NewlineCount(t) == Cardinality({i \in 1..Len(t) : t[i] = LF})

\* byte length of t[p..q], from the encoding lengths of its scalar values
BytesOf(t, p, q) ==
    (q - p + 1) + Cardinality({i \in p..q : t[i] = EACUTE})

HasNonWhitespace(t, p, q) == \E i \in p..q : ~IsWhitespace(t[i])

\* the lines read in streaming mode, as intervals <<s, e>> of t: a line
\* starts at the start of the input or after a LF and runs up to and
\* including the next LF, or to the end of the input
StreamLines(t) ==
    {<<s, e>> \in (1..Len(t)) \X (1..Len(t)) :
        /\ s <= e
        /\ s = 1 \/ t[s - 1] = LF
        /\ \A i \in s..(e - 1) : t[i] # LF
        /\ t[e] = LF \/ e = Len(t)}

\* the pieces of the line t[s..e] split on SP that are non-empty after
\* trimming, as intervals <<p, q>>
WordPieces(t, s, e) ==
    {<<p, q>> \in (s..e) \X (s..e) :
        /\ p <= q
        /\ p = s \/ t[p - 1] = SP
        /\ q = e \/ t[q + 1] = SP
        /\ \A i \in p..q : t[i] # SP
        /\ HasNonWhitespace(t, p, q)}

StreamingRecord(t) ==
    FileInfo(NewlineCount(t)
                + (IF t # <<>> /\ t[Len(t)] # LF THEN 1 ELSE 0),
             SumOver(StreamLines(t),
                     [l \in StreamLines(t) |->
                        Cardinality(WordPieces(t, l[1], l[2]))]),
             BytesOf(t, 1, Len(t)),
             Len(t))

\* the segments of t split on LF, as intervals <<s, e>>; e = s - 1 for an
\* empty segment
Segments(t) ==
    {<<s, e>> \in (1..(Len(t) + 1)) \X (0..Len(t)) :
        /\ s <= e + 1
        /\ s = 1 \/ t[s - 1] = LF
        /\ e = Len(t) \/ t[e + 1] = LF
        /\ \A i \in s..e : t[i] # LF}

BlobRecord(t) ==
    FileInfo(NewlineCount(t) + 1,
             SumOver(Segments(t),
                     [g \in Segments(t) |->
                        Cardinality(WordPieces(t, g[1], g[2]))]),
             SumOver(Segments(t),
                     [g \in Segments(t) |-> BytesOf(t, g[1], g[2]) + 1]),
             SumOver(Segments(t),
                     [g \in Segments(t) |-> (g[2] - g[1] + 1) + 1]))

ABC == <<"a", SP, "b", SP, "c", LF>>
HelloWorld == <<"h", "e", "l", "l", "o", SP, "w", "o", "r", "l", "d", LF>>

\* C6: count_file on valid text returns bytes = byte length, chars = number
\* of scalar values, lines = number of LF plus 1 for a non-empty
\* unterminated remainder, words = sum over the lines of the pieces of the
\* split on SP that are non-empty after trimming; "a b c\n" gives
\* {lines 1, words 3, bytes 6, chars 6}.
C6_StreamingRecord ==
    /\ (fileRes # NotRun /\ ValidUtf8(text))
          => fileRes = Ok(StreamingRecord(text))
    /\ fileRes # NotRun => count_file(ABC) = Ok(FileInfo(1, 3, 6, 6))

C6_Witness ==
    /\ fileRes.ok
    /\ Len(text) = MaxLen
    /\ text[Len(text)] # LF
    /\ fileRes.val.num_lines >= 2
    /\ fileRes.val.num_words >= 2
    /\ fileRes.val.num_bytes > fileRes.val.num_chars

\* C7: count_in_str on a text with k LF returns lines = k + 1, bytes = sum
\* over the segments of (byte length + 1), chars = sum over the segments of
\* (scalar count + 1), words by the same rule per segment; "hello world\n"
\* gives lines 2, words 2, bytes 13, chars 13.
C7_BlobRecord ==
    /\ strRes.ok => strRes = Ok(BlobRecord(text))
    /\ strRes # NotRun
          => count_in_str(HelloWorld) = FileInfo(2, 2, 13, 13)

C7_Witness ==
    /\ strRes.ok
    /\ Len(text) = MaxLen
    /\ text[Len(text)] = LF
    /\ strRes.val.num_lines >= 3
    /\ strRes.val.num_words >= 1
    /\ strRes.val.num_bytes > strRes.val.num_chars

\* C8 as stated: the record of the empty input is all zeros in streaming
\* mode and in blob mode.
C8_EmptyAllZerosBothModes ==
    text = <<>> =>
        /\ fileRes # NotRun => fileRes = Ok(ZeroInfo)
        /\ strRes # NotRun => strRes = Ok(ZeroInfo)

\* C8 amended: the record of the empty input is all zeros in streaming mode;
\* in blob mode it is {lines 1, words 0, bytes 1, chars 1}.
C8_EmptyRecords ==
    text = <<>> =>
        /\ fileRes # NotRun => fileRes = Ok(ZeroInfo)
        /\ strRes # NotRun => strRes = Ok(FileInfo(1, 0, 1, 1))

C8_Witness ==
    text = <<>> /\ fileRes.ok /\ strRes.ok /\ prevFile = NotRun

Geq(a, b) ==
    /\ a.num_lines >= b.num_lines
    /\ a.num_words >= b.num_words
    /\ a.num_bytes >= b.num_bytes
    /\ a.num_chars >= b.num_chars

\* C9: when a valid text is extended by any units, no field of its record
\* gets smaller, in streaming mode and in blob mode.
C9_Monotonic ==
    /\ (prevFile.ok /\ fileRes.ok) => Geq(fileRes.val, prevFile.val)
    /\ (prevStr.ok /\ strRes.ok) => Geq(strRes.val, prevStr.val)

C9_Witness ==
    /\ prevFile.ok /\ fileRes.ok /\ prevStr.ok /\ strRes.ok
    /\ prevFile.val.num_words >= 1
    /\ prevFile.val.num_lines >= 1
    /\ text[Len(text)] \in {SP, TAB, LF}
    /\ fileRes.val.num_lines > prevFile.val.num_lines

\* C10: on valid text both modes count the same words; blob mode counts one
\* byte and one char more; blob mode counts the same lines when the input is
\* non-empty and does not end with LF, and one more otherwise.
C10_ModesRelated ==
    (fileRes.ok /\ strRes.ok) =>
        /\ strRes.val.num_words = fileRes.val.num_words
        /\ strRes.val.num_bytes = fileRes.val.num_bytes + 1
        /\ strRes.val.num_chars = fileRes.val.num_chars + 1
        /\ strRes.val.num_lines =
              IF text # <<>> /\ text[Len(text)] # LF
              THEN fileRes.val.num_lines
              ELSE fileRes.val.num_lines + 1

C10_Witness ==
    /\ fileRes.ok /\ strRes.ok
    /\ Len(text) = MaxLen
    /\ text[Len(text)] = LF
    /\ fileRes.val.num_words >= 2
    /\ strRes.val.num_lines = fileRes.val.num_lines + 1
    /\ fileRes.val.num_lines >= 2

----------------------------------------------------------------------------
(* Properties of main and run, stated from the command line, the file      *)
(* system and standard input                                               *)

\* the token cannot be opened
Unopenable(f) == f # STDIN /\ ~FileExists(f)

\* what the reader of token i of fs holds when it is reached
SourceOf(fs, i) ==
    IF fs[i] # STDIN THEN FileContent(fs[i])
    ELSE IF \E j \in 1..(i - 1) : fs[j] = STDIN THEN Drained(stdinSrc)
    ELSE stdinSrc

Readable(src) == src # ReadFails /\ ValidUtf8(src)

\* token i of fs can be opened, read and decoded
Succeeds(fs, i) == ~Unopenable(fs[i]) /\ Readable(SourceOf(fs, i))

BlobFails == LoneStdin /\ ~Readable(stdinSrc)

IsTotal(l) == l.lhs = "Total"
IsSource(l) == l.lhs # "Total"

SourceLines(out) == SelectSeq(out, IsSource)
TotalLines(out) == SelectSeq(out, IsTotal)

RECURSIVE SumColumn(_, _)
\* sum of the k-th displayed count of the lines ls
SumColumn(ls, k) ==
    IF ls = <<>> THEN 0 ELSE Head(ls).res[k][1] + SumColumn(Tail(ls), k)

\* C1: the record on the Total line is the field-wise sum of the records
\* displayed for the counted sources, and a run over the same tokens in
\* another order shows the same Total line.
C1_TotalIsSum ==
    /\ (pc = "done" /\ TotalLine(stdout) # NoLine) =>
          /\ Len(TotalLine(stdout).res) = Cardinality(Selected)
          /\ \A k \in 1..Len(TotalLine(stdout).res) :
                TotalLine(stdout).res[k][1] = SumColumn(SourceLines(stdout), k)
    /\ (pc = "done" /\ runNo = 2) => TotalLine(stdout) = prevTotal

C1_Witness ==
    /\ pc = "done" /\ runNo = 2 /\ reordered
    /\ TotalLine(stdout) # NoLine
    /\ Len(SourceLines(stdout)) >= 2
    /\ SourceLines(stdout)[1].res # SourceLines(stdout)[2].res
    /\ Len(stdout) < Len(files) + 1
    /\ total.num_words >= 4

RECURSIVE ExpectedFrom(_, _)
\* the per-source lines of a streaming run over fs, from token i on
ExpectedFrom(fs, i) ==
    IF i > Len(fs) THEN <<>>
    ELSE (IF Succeeds(fs, i)
          THEN <<display(IF fs[i] = STDIN THEN "stdin" ELSE fs[i],
                         count_file(SourceOf(fs, i)).val)>>
          ELSE <<>>) \o ExpectedFrom(fs, i + 1)

C2_Step ==
    (pc = "run" /\ ~LoneStdin /\ pos <= Len(files) /\ Unopenable(files[pos]))
        => /\ stderr' = Append(stderr,
                 <<files[pos], ": ", "No such file or directory (os error 2)">>)
           /\ stdout' = stdout
           /\ total' = total
           /\ pc' = "run"
           /\ pos' = pos + 1

C2_Later ==
    (pc = "run" /\ ~LoneStdin /\ pc' = "done")
        => /\ pos' = Len(files) + 1
           /\ SourceLines(stdout') = ExpectedFrom(files, 1)

\* C2: in a streaming run a token that cannot be opened gives one stderr
\* line `<filename>: <cause>`, no stdout line and no change of the total,
\* and the later tokens are still resolved, counted and displayed.
C2_OpenFailureSkipped == [][C2_Step /\ C2_Later]_vars

C2_Witness ==
    /\ pc = "done" /\ ParseOk /\ ~LoneStdin
    /\ Len(files) >= 3
    /\ Unopenable(files[1])
    /\ Succeeds(files, 2) /\ Succeeds(files, 3)
    /\ Len(stderr) = 1 /\ stderr[1][1] = files[1]
    /\ Len(SourceLines(stdout)) = 2
    /\ total.num_lines >= 2

OneTotalLast(out) ==
    /\ Len(TotalLines(out)) = 1
    /\ IsTotal(out[Len(out)])

FailedUpTo(fs, n) == {i \in 1..n : ~Succeeds(fs, i)}

\* C5: in a run over several tokens every failure of a source, one inside
\* count_file included, is reported.
C5_FailuresReported ==
    (ParseOk /\ pc \in {"run", "done"} /\ ~LoneStdin /\ Len(files) >= 2)
        => Len(stderr) = Cardinality(FailedUpTo(files, pos - 1))

====
